---- MODULE Spec2Model ----
(***************************************************************************)
(* Model of src/templates/utils.py: a script that lists the regular files  *)
(* of the directory named by sys.argv[1] and then renames every entry      *)
(* whose extension is '.jpg' to <lowercased prefix before first '_'>.jpg.  *)
(*                                                                         *)
(* File names are sequences of one-character strings, so that splitext,    *)
(* split('_')[0] and lower() are computed as the library computes them.    *)
(* Paths are records [abs, parts]; parts is a sequence of names.           *)
(* The directory is a function from names to entries; an entry records     *)
(* its kind, whether (for a directory) it has children, and its content,   *)
(* identified by the name the entry had when the model started.            *)
(* Names are compared case-sensitively and no other process touches the    *)
(* directory while the script runs.  os.rename follows the library         *)
(* documentation: on POSIX an existing destination of the same kind is     *)
(* replaced (a directory only when empty); on Windows an existing          *)
(* destination makes the call raise.                                       *)
(***************************************************************************)
EXTENDS Naturals, Sequences, FiniteSets

VARIABLES
    platform,   \* "posix" or "nt": which os.rename the interpreter runs on
    cwd,        \* working directory of the process (absolute path)
    dir_path,   \* line 5: directory of the script itself (absolute path)
    mypath,     \* line 11: sys.argv[1]
    dirExists,  \* does mypath name an existing directory
    fs,         \* contents of that directory: name -> entry
    fs0,        \* contents when the current run started
    pc,         \* "start", "list", "rename", "done", "error"
    listing,    \* entries of the first os.listdir not yet iterated
    printed,    \* paths printed so far by this run
    renaming,   \* entries of the second os.listdir not yet iterated
    visited,    \* entries the rename loop has iterated, in order
    failed,     \* the entry whose os.rename raised, or NoName
    runs        \* number of runs started

vars == <<platform, cwd, dir_path, mypath, dirExists, fs, fs0, pc, listing,
          printed, renaming, visited, failed, runs>>

----------------------------------------------------------------------------
(* Bounds *)

MaxEntries == 3

MaxRuns == 2

----------------------------------------------------------------------------
(* The names a directory may hold *)

Names ==
    { <<"A","_","b",".","j","p","g">>,
      <<"A","_","c",".","j","p","g">>,
      <<"a",".","j","p","g">>,
      <<"A","b",".","j","p","g">>,
      <<"_","a",".","j","p","g">>,
      <<".","j","p","g">>,
      <<"A","_","b",".","J","P","G">> }

NoName == <<>>

JpgExt == <<".","j","p","g">>

----------------------------------------------------------------------------
(* String functions of the Python library, on sequences of characters *)

LowerChar(c) ==
    CASE c = "A" -> "a"
      [] c = "B" -> "b"
      [] c = "C" -> "c"
      [] c = "J" -> "j"
      [] c = "P" -> "p"
      [] c = "G" -> "g"
      [] OTHER -> c

\* variant: the lowercasing is left out
lower_id(s) == s

\* str.lower()
lower(s) == [i \in 1..Len(s) |-> LowerChar(s[i])]

\* str.rfind('.'), 1-based, 0 when absent
rfindDot(s) ==
    IF \E i \in 1..Len(s) : s[i] = "."
    THEN CHOOSE i \in 1..Len(s) : s[i] = "." /\ \A j \in (i+1)..Len(s) : s[j] # "."
    ELSE 0

\* os.path.splitext on a name without separators: the extension starts at the
\* last dot, unless only dots precede it
splitext(p) ==
    LET d == rfindDot(p) IN
    IF d > 0 /\ \E i \in 1..(d-1) : p[i] # "."
    THEN <<SubSeq(p, 1, d-1), SubSeq(p, d, Len(p))>>
    ELSE <<p, <<>> >>

\* variant: the name is not cut at the underscore
splitFirst_whole(s) == s

\* str.split('_')[0]
splitFirst(s) ==
    IF \E i \in 1..Len(s) : s[i] = "_"
    THEN LET u == CHOOSE i \in 1..Len(s) : s[i] = "_" /\ \A j \in 1..(i-1) : s[j] # "_"
         IN SubSeq(s, 1, u-1)
    ELSE s

\* variant: the extension is not appended again
new_name_noext(f) == lower(splitFirst(splitext(f)[1]))

\* line 25: new_name = basename.split('_')[0].lower() + ext
new_name(f) ==
    LET basename == splitext(f)[1]
        ext == splitext(f)[2]
    IN lower(splitFirst(basename)) \o ext

\* line 24: ext == '.jpg'
IsJpg(f) == splitext(f)[2] = JpgExt

----------------------------------------------------------------------------
(* Paths *)

Path(a, p) == [abs |-> a, parts |-> p]

\* os.path.join(a, b): an absolute b discards a
join(a, b) ==
    IF b.abs THEN b ELSE [abs |-> a.abs, parts |-> a.parts \o b.parts]

\* os.path.isfile(os.path.join(mypath, f)) for an entry f of the directory
isfile(fsys, f) == f \in DOMAIN fsys /\ fsys[f].kind = "file"

----------------------------------------------------------------------------
(* os.rename(os.path.join(dir, src), os.path.join(dir, dst)) *)

Remove(fsys, f) == [g \in (DOMAIN fsys) \ {f} |-> fsys[g]]

Move(fsys, src, dst) ==
    [g \in ((DOMAIN fsys) \ {src}) \cup {dst} |->
        IF g = dst THEN fsys[src] ELSE fsys[g]]

\* TRUE when the call raises OSError
renameRaises(fsys, plat, src, dst) ==
    \/ src \notin DOMAIN fsys
    \/ /\ src # dst
       /\ dst \in DOMAIN fsys
       /\ \/ plat = "nt"
          \/ fsys[src].kind # fsys[dst].kind
          \/ fsys[dst].kind = "dir" /\ fsys[dst].full

\* variant: an existing destination is kept and the source is dropped
rename_keep(fsys, src, dst) ==
    IF src = dst THEN fsys
    ELSE IF dst \in DOMAIN fsys THEN Remove(fsys, src)
    ELSE Move(fsys, src, dst)

\* the directory after a call that does not raise
rename(fsys, src, dst) ==
    IF src = dst THEN fsys ELSE Move(fsys, src, dst)

----------------------------------------------------------------------------
(* Initial states *)

Kinds ==
    { [kind |-> "file", full |-> FALSE],
      [kind |-> "dir", full |-> FALSE],
      [kind |-> "dir", full |-> TRUE] }

Entry(k, n) == [kind |-> k.kind, full |-> k.full, content |-> n]

Directories ==
    UNION { { [n \in S |-> Entry(k[n], n)] : k \in [S -> Kinds] } :
            S \in { T \in SUBSET Names : Cardinality(T) <= MaxEntries } }

ScriptDir == Path(TRUE, << <<"s">> >>)

WorkDirs == { ScriptDir, Path(TRUE, << <<"w">> >>) }

Relative == Path(FALSE, << <<"d">> >>)

\* how the script is started: a relative argument from the script's own
\* directory, a relative argument from elsewhere, an absolute argument
Invocations ==
    { [cwd |-> ScriptDir, arg |-> Relative] } \cup
    UNION { { [cwd |-> w, arg |-> Relative], [cwd |-> w, arg |-> join(w, Relative)] } :
            w \in WorkDirs \ {ScriptDir} }

Init ==
    /\ platform \in {"posix", "nt"}
    /\ dir_path = ScriptDir
    /\ \E i \in Invocations : cwd = i.cwd /\ mypath = i.arg
    /\ dirExists \in BOOLEAN
    /\ fs \in Directories
    /\ dirExists = FALSE => fs = << >>
    /\ fs0 = fs
    /\ pc = "start"
    /\ listing = {}
    /\ printed = {}
    /\ renaming = {}
    /\ visited = << >>
    /\ failed = NoName
    /\ runs = 1

----------------------------------------------------------------------------
(* The script *)

\* variant: a missing directory lists as empty
ListDir_lenient ==
    /\ pc = "start"
    /\ listing' = DOMAIN fs
    /\ pc' = "list"
    /\ UNCHANGED <<platform, cwd, dir_path, mypath, dirExists, fs, fs0,
                   printed, renaming, visited, failed, runs>>

\* line 14: os.listdir(mypath) of the listing loop
ListDir ==
    /\ pc = "start"
    /\ IF dirExists
       THEN /\ listing' = DOMAIN fs
            /\ pc' = "list"
       ELSE /\ listing' = listing
            /\ pc' = "error"
    /\ UNCHANGED <<platform, cwd, dir_path, mypath, dirExists, fs, fs0,
                   printed, renaming, visited, failed, runs>>

\* lines 14-18: one iteration of the listing loop
ListStep ==
    /\ pc = "list"
    /\ \E f \in listing :
        LET path == join(mypath, Path(FALSE, <<f>>)) IN
        /\ listing' = listing \ {f}
        /\ printed' = IF isfile(fs, f)
                      THEN printed \cup {join(dir_path, path)}
                      ELSE printed
    /\ UNCHANGED <<platform, cwd, dir_path, mypath, dirExists, fs, fs0, pc,
                   renaming, visited, failed, runs>>

\* variant: the rename loop starts before the listing loop has ended
ListDirAgain_early ==
    /\ pc = "list"
    /\ renaming' = DOMAIN fs
    /\ pc' = "rename"
    /\ UNCHANGED <<platform, cwd, dir_path, mypath, dirExists, fs, fs0,
                   listing, printed, visited, failed, runs>>

\* lines 21-22: os.listdir(dir) of the rename loop, once the listing loop ends
ListDirAgain ==
    /\ pc = "list"
    /\ listing = {}
    /\ renaming' = DOMAIN fs
    /\ pc' = "rename"
    /\ UNCHANGED <<platform, cwd, dir_path, mypath, dirExists, fs, fs0,
                   listing, printed, visited, failed, runs>>

\* variant: an OSError of os.rename is swallowed and the loop goes on
RenameStep_swallow ==
    /\ pc = "rename"
    /\ \E f \in renaming :
        /\ renaming' = renaming \ {f}
        /\ visited' = Append(visited, f)
        /\ IF IsJpg(f) /\ ~renameRaises(fs, platform, f, new_name(f))
           THEN fs' = rename(fs, f, new_name(f))
           ELSE fs' = fs
    /\ UNCHANGED <<platform, cwd, dir_path, mypath, dirExists, fs0, pc,
                   listing, printed, failed, runs>>

\* lines 22-26: one iteration of the rename loop
RenameStep ==
    /\ pc = "rename"
    /\ \E f \in renaming :
        /\ renaming' = renaming \ {f}
        /\ visited' = Append(visited, f)
        /\ IF IsJpg(f)
           THEN IF renameRaises(fs, platform, f, new_name(f))
                THEN /\ pc' = "error"
                     /\ failed' = f
                     /\ fs' = fs
                ELSE /\ fs' = rename(fs, f, new_name(f))
                     /\ UNCHANGED <<pc, failed>>
           ELSE UNCHANGED <<fs, pc, failed>>
    /\ UNCHANGED <<platform, cwd, dir_path, mypath, dirExists, fs0, listing,
                   printed, runs>>

\* the rename loop is exhausted and the script ends
Finish ==
    /\ pc = "rename"
    /\ renaming = {}
    /\ pc' = "done"
    /\ UNCHANGED <<platform, cwd, dir_path, mypath, dirExists, fs, fs0,
                   listing, printed, renaming, visited, failed, runs>>

\* the script is started again on the same argument after a completed run
Rerun ==
    /\ pc = "done"
    /\ runs < MaxRuns
    /\ runs' = runs + 1
    /\ pc' = "start"
    /\ fs0' = fs
    /\ listing' = {}
    /\ printed' = {}
    /\ renaming' = {}
    /\ visited' = << >>
    /\ failed' = NoName
    /\ UNCHANGED <<platform, cwd, dir_path, mypath, dirExists, fs>>

Next ==
    \/ ListDir
    \/ ListStep
    \/ ListDirAgain
    \/ RenameStep
    \/ Finish
    \/ Rerun

Spec == Init /\ [][Next]_vars

----------------------------------------------------------------------------
(* What the specification says of a name, stated without the script's code *)

Range(q) == {q[i] : i \in 1..Len(q)}

\* the base name of a '.jpg' entry: the name without its last four characters
BaseOf(f) == SubSeq(f, 1, Len(f) - 4)

\* the length of the part of s before its first underscore
PrefixLen(s) ==
    CHOOSE k \in 0..Len(s) :
        /\ \A i \in 1..k : s[i] # "_"
        /\ k = Len(s) \/ s[k+1] = "_"

\* <lowercased prefix before the first underscore>.jpg
Target(f) ==
    [i \in 1..PrefixLen(BaseOf(f)) |-> LowerChar(BaseOf(f)[i])] \o JpgExt

\* a base name that is lowercase and has no underscore
Normal(b) == \A i \in 1..Len(b) : b[i] # "_" /\ LowerChar(b[i]) = b[i]

HasUnderscore(f) == \E i \in 1..Len(f) : f[i] = "_"

\* the absolute path of entry f of the directory the argument names
AbsPath(f) == join(cwd, join(mypath, Path(FALSE, <<f>>)))

FilesOf(fsys) == {f \in DOMAIN fsys : fsys[f].kind = "file"}

DirsOf(fsys) == {f \in DOMAIN fsys : fsys[f].kind = "dir"}

PrintedNames == {p.parts[Len(p.parts)] : p \in printed}

\* position of entry s in the order the rename loop iterated
Pos(s) == CHOOSE i \in 1..Len(visited) : visited[i] = s

\* the '.jpg' entries of the run's directory that map to target t
Sources(t) == {s \in DOMAIN fs0 : IsJpg(s) /\ Target(s) = t}

Ended == pc \in {"done", "error"}

----------------------------------------------------------------------------
(* C1: once the listing pass has ended, the set of printed paths equals the  *)
(* set of absolute paths of the regular files directly in the directory.    *)
C1_PrintedAreAbsolutePaths ==
    pc \in {"rename", "done"} =>
        printed = {AbsPath(f) : f \in FilesOf(fs0)}

(* C2, as stated: after the program has run, for every regular file whose   *)
(* extension is '.jpg' a file named <lowercased prefix>.jpg exists.         *)
C2_TargetExistsAfterAnyRun ==
    Ended =>
        \A f \in FilesOf(fs0) :
            IsJpg(f) => Target(f) \in DOMAIN fs /\ fs[Target(f)].kind = "file"

(* C2, amended: after a run that completes without error, for every regular *)
(* file whose extension is '.jpg' a file named <lowercased prefix>.jpg      *)
(* exists; with no underscore the prefix is the whole base name.            *)
C2_TargetExistsAfterCompletedRun ==
    pc = "done" =>
        \A f \in FilesOf(fs0) :
            IsJpg(f) => Target(f) \in DOMAIN fs /\ fs[Target(f)].kind = "file"

C2_Witness ==
    /\ pc = "done"
    /\ \E f \in FilesOf(fs0) :
        IsJpg(f) /\ HasUnderscore(f) /\ f \notin DOMAIN fs /\ Target(f) \in DOMAIN fs
    /\ \E f \in FilesOf(fs0) :
        IsJpg(f) /\ ~HasUnderscore(f) /\ f \notin DOMAIN fs /\ Target(f) \in DOMAIN fs

(* C3: every entry whose extension is not exactly '.jpg' still exists under *)
(* the same name with the same content; it is neither renamed nor           *)
(* overwritten.                                                             *)
C3_NonJpgUntouched ==
    \A f \in DOMAIN fs0 : ~IsJpg(f) => f \in DOMAIN fs /\ fs[f] = fs0[f]

(* C4: an entry that is a directory is never printed by the listing pass    *)
(* and never renamed by the rename pass, even when its name ends in '.jpg'. *)
C4_DirectoriesExcluded ==
    \A f \in DirsOf(fs0) :
        /\ f \notin PrintedNames
        /\ f \in DOMAIN fs /\ fs[f] = fs0[f]

(* C5: if every '.jpg' entry has a lowercase base name with no underscore,  *)
(* a run does not fail and leaves names and contents exactly as they were,  *)
(* and so does any further run.                                             *)
C5_IdempotentOnNormalNames ==
    (dirExists /\ \A f \in DOMAIN fs0 : IsJpg(f) => Normal(BaseOf(f))) =>
        fs = fs0 /\ pc # "error"

C5_Witness ==
    /\ runs = 2
    /\ pc = "done"
    /\ \E f \in Range(visited) : IsJpg(f)
    /\ \A f \in DOMAIN fs0 : IsJpg(f) => Normal(BaseOf(f))

(* C6, as stated: when two '.jpg' entries map to the same target name the   *)
(* rename pass does not fail at them, and after the run exactly one entry   *)
(* with the target name exists, holding the content of the one processed    *)
(* later, and neither other source name remains.                            *)
C6_CollisionOverwrites ==
    \A s1, s2 \in DOMAIN fs0 :
        (s1 # s2 /\ IsJpg(s1) /\ IsJpg(s2) /\ Target(s1) = Target(s2)) =>
            /\ failed \notin {s1, s2}
            /\ pc = "done" =>
                LET t == Target(s1)
                    later == IF Pos(s1) > Pos(s2) THEN s1 ELSE s2
                IN /\ t \in DOMAIN fs
                   /\ fs[t].content = fs0[later].content
                   /\ \A s \in {s1, s2} \ {t} : s \notin DOMAIN fs

(* C6, amended: when two or more '.jpg' entries map to the same target name *)
(* and the run completes without error, the entry with the target name      *)
(* holds the content of the last-listed source whose own name differs from  *)
(* the target, and no source name other than the target remains.            *)
C6_CollisionLastMovedWins ==
    pc = "done" =>
        \A t \in {Target(s) : s \in {g \in DOMAIN fs0 : IsJpg(g)}} :
            Cardinality(Sources(t)) >= 2 =>
                LET moved == Sources(t) \ {t}
                    last == CHOOSE s \in moved : \A r \in moved : Pos(r) <= Pos(s)
                IN /\ t \in DOMAIN fs
                   /\ fs[t].content = fs0[last].content
                   /\ \A s \in moved : s \notin DOMAIN fs

C6_Witness ==
    /\ pc = "done"
    /\ \E s1, s2 \in DOMAIN fs0 :
        /\ s1 # s2 /\ IsJpg(s1) /\ IsJpg(s2) /\ Target(s1) = Target(s2)
        /\ Target(s1) \notin {s1, s2}
        /\ Pos(s1) < Pos(s2)
        /\ fs[Target(s1)].content = fs0[s2].content
        /\ fs0[s1].content # fs0[s2].content

(* C7: a rename that raises is not caught: the run ends in the error state  *)
(* at that entry with the directory as it was before the call, the entries  *)
(* later in the listing keep their names, the renames already performed     *)
(* stay performed, and nothing happens afterwards.                          *)
C7_FailureAborts ==
    /\ [][ ( /\ pc = "rename"
             /\ Len(visited') = Len(visited) + 1
             /\ IsJpg(visited'[Len(visited')])
             /\ renameRaises(fs, platform, visited'[Len(visited')],
                             Target(visited'[Len(visited')])) )
           => ( /\ pc' = "error"
                /\ failed' = visited'[Len(visited')]
                /\ fs' = fs
                /\ renaming' = renaming \ {failed'} ) ]_vars
    /\ [][ pc = "error" => UNCHANGED vars ]_vars
    /\ [] ( (pc = "error" /\ failed # NoName) =>
              /\ failed \in DOMAIN fs
              /\ \A f \in renaming : f \in DOMAIN fs
              /\ \A i \in 1..(Len(visited) - 1) :
                    (IsJpg(visited[i]) /\ Target(visited[i]) # visited[i]) =>
                        /\ visited[i] \notin DOMAIN fs
                        /\ Target(visited[i]) \in DOMAIN fs )

C7_Witness ==
    /\ pc = "error"
    /\ failed # NoName
    /\ Target(failed) \in DirsOf(fs)
    /\ renaming # {}
    /\ \E i \in 1..(Len(visited) - 1) :
        IsJpg(visited[i]) /\ visited[i] \notin DOMAIN fs

(* C8: when the argument names no existing directory the run fails at the   *)
(* first listing: nothing is printed, no entry is iterated or renamed, and  *)
(* the filesystem is unchanged.                                             *)
C8_MissingDirectoryFails ==
    (~dirExists /\ pc # "start") =>
        /\ pc = "error"
        /\ printed = {}
        /\ listing = {} /\ renaming = {} /\ visited = << >>
        /\ fs = fs0

C8_Witness == ~dirExists /\ pc = "error"

(* C9: the passes are sequential: while the listing pass runs nothing is    *)
(* renamed, no entry is iterated by the rename pass before the listing pass *)
(* has visited every entry, every printed path names a regular file as it   *)
(* was before any renaming, and the rename pass iterates the entries of the *)
(* directory as listed after the listing pass ended.                        *)
C9_PassesSequential ==
    /\ pc = "list" => fs = fs0 /\ visited = << >> /\ renaming = {}
    /\ (visited # << >> \/ fs # fs0 \/ pc \in {"rename", "done"}) => listing = {}
    /\ PrintedNames \subseteq FilesOf(fs0)
    /\ pc \in {"rename", "done"} =>
        /\ PrintedNames = FilesOf(fs0)
        /\ renaming \cup Range(visited) = DOMAIN fs0
        /\ renaming \cap Range(visited) = {}

C9_Witness ==
    /\ pc = "rename"
    /\ fs # fs0
    /\ printed # {}
    /\ PrintedNames \ DOMAIN fs # {}

(* C10: after a run that completes without error every entry whose          *)
(* extension is exactly '.jpg' has a base name without underscore that is   *)
(* equal to its own lowercase form, each listed entry having been iterated  *)
(* exactly once.                                                            *)
C10_NormalFormAfterRun ==
    pc = "done" =>
        /\ \A f \in DOMAIN fs : IsJpg(f) => Normal(BaseOf(f))
        /\ Len(visited) = Cardinality(DOMAIN fs0)
        /\ Range(visited) = DOMAIN fs0

C10_Witness ==
    /\ pc = "done"
    /\ \E f \in DOMAIN fs0 : IsJpg(f) /\ ~Normal(BaseOf(f))
    /\ \E f \in DOMAIN fs : IsJpg(f) /\ fs[f].content # f

====
